---- MODULE Spec2Model ----
(***************************************************************************)
(* Model of the Slurm orchestration scripts of NL-BIOMERO:                 *)
(*   - SlurmClient.check_job_status (bounded retry on empty output),       *)
(*   - runScript / run_workflow of SLURM_Nuclei_Segmentation.py            *)
(*     (unpack, update, submit, poll until the id list is empty, import),  *)
(*   - runScript of SLURM_Nuclei_Segmentation_Batched.py (batch tracking). *)
(* The remote cluster, the scheduler and the OMERO script service are the  *)
(* environment: their answers are drawn from small sets.                   *)
(***************************************************************************)
EXTENDS Integers, Sequences, FiniteSets, TLC

(***************************************************************************)
(* Bounds of the model.                                                    *)
(***************************************************************************)
\* number of workflows configured on the client (keys of wf_versions)
NumWorkflows == 2
\* how many times check_job_status may raise during the polling loop
MaxPollErrors == 1
\* number of batches the batched script fans out
NumBatches == 3
\* longest submission output, in parts
MaxStdoutLen == 4
\* most lines of an answer of sacct
MaxLines == 3
\* most job ids in one status query
MaxIds == 3
\* most commands in one list for run_commands_split_out
MaxCmds == 3
\* most path names of a repository URL
MaxPathLen == 4
\* most get_workflow_parameters calls on one client
MaxCalls == 3
\* most data ids of a batched run, and the largest batch size
MaxDataIds == 4
MaxBatchSize == 3
\* most workflow parameters passed to get_workflow_command
MaxParams == 2

(***************************************************************************)
(* Program constants.                                                      *)
(***************************************************************************)
\* `while retry_status < 3` in check_job_status
MaxRetries == 3
\* sentinel returned by extract_job_id when no job id is found
NoJobId == -1

Workflows == 1..NumWorkflows

(***************************************************************************)
(* Job states as sacct prints them.  A state string is modelled as the     *)
(* sequence of its parts, so that `==` and `startswith` differ.            *)
(***************************************************************************)
JobStates ==
    { <<"PENDING">>, <<"RUNNING">>, <<"COMPLETED">>, <<"FAILED">>,
      <<"TIMEOUT">>, <<"CANCELLED">>, <<"CANCELLED", "+">>, <<"NODE_FAIL">> }

\* str.startswith
StartsWith(s, prefix) ==
    /\ Len(s) >= Len(prefix)
    /\ SubSeq(s, 1, Len(prefix)) = prefix

(***************************************************************************)
(* Sequence helpers (Python list / dict operations).                       *)
(***************************************************************************)
Range(s) == { s[i] : i \in 1..Len(s) }

\* a filter that lets every value through
FilterKeepsAll(s) == s

\* [x for x in seq if P(x)]
RECURSIVE FilterNonNegative(_)
FilterNonNegative(s) ==
    IF s = <<>> THEN <<>>
    ELSE IF Head(s) >= 0
         THEN <<Head(s)>> \o FilterNonNegative(Tail(s))
         ELSE FilterNonNegative(Tail(s))

\* index of the first occurrence of x in s, 0 when absent
RECURSIVE IndexOf(_, _, _)
IndexOf(s, x, i) ==
    IF i > Len(s) THEN 0
    ELSE IF s[i] = x THEN i ELSE IndexOf(s, x, i + 1)

ListRemoveKeepsAll(lst, x) == lst

\* list.remove(x): drops the first occurrence (the caller checks membership,
\* Python raises ValueError when x is absent)
ListRemove(lst, x) ==
    LET k == IndexOf(lst, x, 1)
    IN  SubSeq(lst, 1, k - 1) \o SubSeq(lst, k + 1, Len(lst))

\* dict keys of an insertion-ordered dict kept as a sequence of items
DictKeys(d) == { d[i].id : i \in 1..Len(d) }

\* d[k] = v on an insertion-ordered dict
DictSet(d, k, v) ==
    IF k \in DictKeys(d)
    THEN [i \in 1..Len(d) |-> IF d[i].id = k THEN [id |-> k, state |-> v] ELSE d[i]]
    ELSE Append(d, [id |-> k, state |-> v])

\* d[k] for a key the caller knows to be present
DictGet(d, k) == d[CHOOSE i \in 1..Len(d) : d[i].id = k].state

\* {int(line.split()[0]): line.split()[1] for line in stdout.split("\n") if line}
RECURSIVE ParseStatusLines(_, _)
ParseStatusLines(lines, acc) ==
    IF lines = <<>> THEN acc
    ELSE ParseStatusLines(Tail(lines), DictSet(acc, Head(lines).id, Head(lines).state))

(***************************************************************************)
(* State.                                                                  *)
(***************************************************************************)
VARIABLES
    selected,           \* client input: the workflows the user ticked
    pc,                 \* position of runScript
    wf_next,            \* workflow the submission loop is at
    rw,                 \* frame of run_workflow: name, slurm_job_id, log_string
    slurm_job_ids,      \* dict wf_name -> job id, in insertion order
    slurm_job_id_list,  \* the active polling list
    job_status_dict,    \* runScript's local: [bound, items]
    todo,               \* items the `for ... in job_status_dict.items()` has left
    log_string,         \* runScript's cumulative log, one entry per `+=`
    cjs,                \* frame of check_job_status
    poll_errors,        \* number of polling iterations whose status check raised
    imports,            \* job ids importImagesToOmero was invoked for, in order
    output,             \* client output: [set, Message]
    exc,                \* exception that ended runScript: [type, msg]
    bpc,                \* batched script: position of the tracking loop
    processes,          \* batched script: per batch the sub-run's return code and results
    remaining_batches,  \* batched script: keys of remaining_batches
    finished,           \* batched script: the `finished` list
    pass_todo,          \* batched script: processes the current pass has left
    print_result,       \* batched script: print_result['Message'], as batch numbers
    handled,            \* batched script: how often each batch was handled
    call                \* frame of one call of a SlurmClient method

ovars == <<selected, pc, wf_next, rw, slurm_job_ids, slurm_job_id_list,
           job_status_dict, todo, log_string, cjs, poll_errors, imports,
           output, exc>>
bvars == <<bpc, processes, remaining_batches, finished, pass_todo,
           print_result, handled>>
cvars == <<call>>
vars == <<ovars, bvars, cvars>>

\* one `log_string += ...`: which message, about which job id (0: none)
LogEntry(kind, id) == [kind |-> kind, id |-> id]
NoException == [type |-> "none", msg |-> <<>>]
\* frame of check_job_status: the ids asked, retry_status, the kind of answer
\* each query of this call got, the last result.stdout and job_status_dict
IdleCall == [status |-> "idle", ids |-> <<>>, retry_status |-> 0,
             resps |-> <<>>, stdout |-> <<>>, result |-> <<>>]
IdleWorkflow == [name |-> 0, slurm_job_id |-> 0, log_string |-> <<>>]
\* no SlurmClient method is called on its own
NoCall == [op |-> "none", status |-> "idle"]

(***************************************************************************)
(* The environment: the scheduler and the remote shell.                    *)
(***************************************************************************)
\* the scheduler hands out distinct job ids
SchedulerJobId(w) == 100 + w

\* the ids of a sequence in ascending order (sacct lists jobs by id)
RECURSIVE SortedSeq(_)
SortedSeq(S) ==
    IF S = {} THEN <<>>
    ELSE LET m == CHOOSE x \in S : \A y \in S : x <= y
         IN  <<m>> \o SortedSeq(S \ {m})

\* what `sacct -n -o JobId,State,End -X -j ...` can print for the ids asked:
\* one line per job it knows of (it knows nothing of the sentinel -1), none
\* at all while the accounting lags
Stdouts(ids) ==
    LET real == { i \in Range(ids) : i >= 0 }
        Lines(S) == LET order == SortedSeq(S)
                    IN  { [k \in 1..Len(order) |-> [id |-> order[k], state |-> f[order[k]]]]
                          : f \in [S -> JobStates] }
    IN  UNION { Lines(S) : S \in SUBSET real }

Results(ids) ==
    { [ok |-> FALSE, stdout |-> <<>>] }
      \cup { [ok |-> TRUE, stdout |-> s] : s \in Stdouts(ids) }

(***************************************************************************)
(* SlurmClient.check_job_status                                            *)
(***************************************************************************)
RetryLoopCondOffByOne(retry_status) == retry_status <= MaxRetries

\* while retry_status < 3
RetryLoopCond(retry_status) == retry_status < MaxRetries

\* `if not result.stdout`
StdoutIsEmpty(stdout) == stdout = <<>>

\* entry: cmd = self.get_job_status_command(slurm_job_ids); retry_status = 0
CallCheckJobStatus(ids) ==
    [status |-> IF RetryLoopCond(0) THEN "running" ELSE "raised",
     ids |-> ids, retry_status |-> 0, resps |-> <<>>, stdout |-> <<>>,
     result |-> <<>>]

CheckJobStatusStepNoReturn(c, result) ==
    IF result.ok
    THEN IF StdoutIsEmpty(result.stdout)
         THEN [c EXCEPT !.retry_status = c.retry_status + 1,
                        !.resps = Append(c.resps, "empty"),
                        !.status = IF RetryLoopCond(c.retry_status + 1)
                                   THEN "running" ELSE "raised"]
         ELSE [c EXCEPT !.resps = Append(c.resps, "data"),
                        !.stdout = result.stdout,
                        !.result = ParseStatusLines(result.stdout, <<>>),
                        !.status = IF c.retry_status = 0 THEN "returned" ELSE "running"]
    ELSE [c EXCEPT !.resps = Append(c.resps, "notok"),
                   !.status = "raised"]

CheckJobStatusStepRetriesNotOk(c, result) ==
    IF result.ok
    THEN IF StdoutIsEmpty(result.stdout)
         THEN [c EXCEPT !.retry_status = c.retry_status + 1,
                        !.resps = Append(c.resps, "empty"),
                        !.status = IF RetryLoopCond(c.retry_status + 1)
                                   THEN "running" ELSE "raised"]
         ELSE [c EXCEPT !.resps = Append(c.resps, "data"),
                        !.stdout = result.stdout,
                        !.result = ParseStatusLines(result.stdout, <<>>),
                        !.status = "returned"]
    ELSE [c EXCEPT !.retry_status = c.retry_status + 1,
                   !.resps = Append(c.resps, "notok"),
                   !.status = IF RetryLoopCond(c.retry_status + 1)
                              THEN "running" ELSE "raised"]

\* one pass of the while loop on the result of run_commands
CheckJobStatusStep(c, result) ==
    IF result.ok
    THEN IF StdoutIsEmpty(result.stdout)
         THEN [c EXCEPT !.retry_status = c.retry_status + 1,
                        !.resps = Append(c.resps, "empty"),
                        !.status = IF RetryLoopCond(c.retry_status + 1)
                                   THEN "running" ELSE "raised"]
         ELSE [c EXCEPT !.resps = Append(c.resps, "data"),
                        !.stdout = result.stdout,
                        !.result = ParseStatusLines(result.stdout, <<>>),
                        !.status = "returned"]
    ELSE [c EXCEPT !.resps = Append(c.resps, "notok"),
                   !.status = "raised"]

Init ==
    /\ selected \in (SUBSET Workflows) \ {{}}
    /\ pc = "unpack"
    /\ wf_next = 0
    /\ rw = IdleWorkflow
    /\ slurm_job_ids = <<>>
    /\ slurm_job_id_list = <<>>
    /\ job_status_dict = [bound |-> FALSE, items |-> <<>>]
    /\ todo = <<>>
    /\ log_string = <<>>
    /\ cjs = IdleCall
    /\ poll_errors = 0
    /\ imports = <<>>
    /\ output = [set |-> FALSE, Message |-> <<>>]
    /\ exc = NoException
    /\ bpc = "off"
    /\ processes = <<>>
    /\ remaining_batches = {}
    /\ finished = <<>>
    /\ pass_todo = <<>>
    /\ print_result = <<>>
    /\ handled = <<>>
    /\ call = NoCall

(***************************************************************************)
(* runScript of SLURM_Nuclei_Segmentation_Batched.py, from step 2 on.      *)
(* A sub-run is a script process of the OMERO script service; poll()       *)
(* gives None until it has ended and its return code afterwards.           *)
(***************************************************************************)
Running == [done |-> FALSE, return_code |-> 0, has_message |-> FALSE]

\* remaining_batches = {i: b for i, b in enumerate(batch_ids)} and one
\* process per batch; an empty IDs list gives no batch at all
BatchInit ==
    /\ selected = {}
    /\ pc = "off"
    /\ wf_next = 0
    /\ rw = IdleWorkflow
    /\ slurm_job_ids = <<>>
    /\ slurm_job_id_list = <<>>
    /\ job_status_dict = [bound |-> FALSE, items |-> <<>>]
    /\ todo = <<>>
    /\ log_string = <<>>
    /\ cjs = IdleCall
    /\ poll_errors = 0
    /\ imports = <<>>
    /\ output = [set |-> FALSE, Message |-> <<>>]
    /\ exc = NoException
    /\ bpc = "track"
    /\ \E n \in 0..NumBatches :
         /\ processes = [i \in 0..(n - 1) |-> Running]
         /\ remaining_batches = 0..(n - 1)
         /\ handled = [i \in 0..(n - 1) |-> 0]
    /\ finished = <<>>
    /\ pass_todo = <<>>
    /\ print_result = <<>>
    /\ call = NoCall

\* the environment: sub-run i ends, with a return code and its results
SubRunEnds ==
    /\ bpc \in {"track", "pass"}
    /\ \E i \in DOMAIN processes, rc \in {0, 1}, msg \in BOOLEAN :
         /\ ~processes[i].done
         /\ processes' = [processes EXCEPT ![i] =
                             [done |-> TRUE, return_code |-> rc, has_message |-> msg]]
    /\ UNCHANGED <<bpc, remaining_batches, finished, pass_todo, print_result, handled>>
    /\ UNCHANGED <<ovars, cvars>>

\* `while remaining_batches:` - an empty dict ends the loop (the processes
\* are closed and the output is set), otherwise a pass over processes starts
TrackLoopHead ==
    /\ bpc = "track"
    /\ IF remaining_batches = {}
       THEN /\ bpc' = "done"
            /\ pass_todo' = pass_todo
       ELSE /\ bpc' = "pass"
            /\ pass_todo' = SortedSeq(DOMAIN processes)
    /\ UNCHANGED <<processes, remaining_batches, finished, print_result, handled>>
    /\ UNCHANGED <<ovars, cvars>>

\* body of `for i, process in processes.items():` for one process; the
\* print of remaining_batches[i] raises KeyError when i was deleted before
PollProcess ==
    /\ bpc = "pass"
    /\ pass_todo # <<>>
    /\ LET i == Head(pass_todo)
       IN  IF processes[i].done
           THEN /\ print_result' = IF processes[i].has_message
                                    THEN Append(print_result, i) ELSE print_result
                /\ finished' = Append(finished, i)
                /\ handled' = [handled EXCEPT ![i] = @ + 1]
                /\ IF i \in remaining_batches
                   THEN /\ pass_todo' = Tail(pass_todo)
                        /\ bpc' = bpc
                   ELSE /\ pass_todo' = pass_todo
                        /\ bpc' = "failed"
           ELSE /\ pass_todo' = Tail(pass_todo)
                /\ UNCHANGED <<bpc, print_result, finished, handled>>
    /\ UNCHANGED <<processes, remaining_batches>>
    /\ UNCHANGED <<ovars, cvars>>

\* end of the pass: del remaining_batches[i] for i in finished; finished = [];
\* conn.keepAlive(); timesleep.sleep(10)
EndPass ==
    /\ bpc = "pass"
    /\ pass_todo = <<>>
    /\ remaining_batches' = remaining_batches \ Range(finished)
    /\ finished' = <<>>
    /\ bpc' = "track"
    /\ UNCHANGED <<processes, pass_todo, print_result, handled>>
    /\ UNCHANGED <<ovars, cvars>>

BatchNext ==
    \/ SubRunEnds
    \/ TrackLoopHead
    \/ PollProcess
    \/ EndPass

BatchSpec == BatchInit /\ [][BatchNext]_vars

(***************************************************************************)
(* runScript of SLURM_Nuclei_Segmentation.py, from step 2 on.              *)
(***************************************************************************)
\* 7. client.setOutput("Message", rstring(log_string))
SetOutput(log) == [set |-> TRUE, Message |-> log]

\* next ticked workflow at or after w in `for wf_name in workflows`, 0 if none
NextSelected(w) ==
    IF \E v \in selected : v >= w
    THEN CHOOSE v \in selected : v >= w /\ \A u \in selected : u >= w => v <= u
    ELSE 0

DictValues(d) == [i \in 1..Len(d) |-> d[i].id]

\* an unpack step that goes on to the submissions when unpacking failed
UnpackDataNotOkSubmits ==
    /\ pc = "unpack"
    /\ \E ok \in BOOLEAN :
         /\ pc' = IF ok THEN "update" ELSE "submit"
         /\ output' = output
    /\ UNCHANGED <<selected, wf_next, rw, slurm_job_ids, slurm_job_id_list,
                   job_status_dict, todo, log_string, cjs, poll_errors,
                   imports, exc>>
    /\ UNCHANGED <<bvars, cvars>>

\* 2. unpack_result = slurmClient.unpack_data(zipfile)
UnpackData ==
    /\ pc = "unpack"
    /\ \E ok \in BOOLEAN :
         IF ok
         THEN /\ pc' = "update"
              /\ output' = output
         ELSE /\ pc' = "done"
              /\ output' = SetOutput(log_string)
    /\ UNCHANGED <<selected, wf_next, rw, slurm_job_ids, slurm_job_id_list,
                   job_status_dict, todo, log_string, cjs, poll_errors,
                   imports, exc>>
    /\ UNCHANGED <<bvars, cvars>>

\* update_result = slurmClient.update_slurm_scripts()
UpdateSlurmScripts ==
    /\ pc = "update"
    /\ \E ok \in BOOLEAN :
         IF ok
         THEN /\ pc' = "submit"
              /\ wf_next' = NextSelected(1)
              /\ output' = output
         ELSE /\ pc' = "done"
              /\ wf_next' = wf_next
              /\ output' = SetOutput(log_string)
    /\ UNCHANGED <<selected, rw, slurm_job_ids, slurm_job_id_list,
                   job_status_dict, todo, log_string, cjs, poll_errors,
                   imports, exc>>
    /\ UNCHANGED <<bvars, cvars>>

\* run_workflow returned: slurm_job_ids[wf_name] = slurm_job_id, then the
\* next ticked workflow, or slurm_job_id_list and the polling loop
WorkflowReturned(w, log, jid) ==
    LET ids == Append(slurm_job_ids, [wf |-> w, id |-> jid])
    IN  /\ log_string' = log
        /\ slurm_job_ids' = ids
        /\ rw' = IdleWorkflow
        /\ cjs' = IdleCall
        /\ IF NextSelected(w + 1) # 0
           THEN /\ pc' = "submit"
                /\ wf_next' = NextSelected(w + 1)
                /\ slurm_job_id_list' = slurm_job_id_list
           ELSE /\ pc' = "poll"
                /\ wf_next' = 0
                /\ slurm_job_id_list' = FilterNonNegative(DictValues(ids))

\* run_workflow raised SSHException(log_string): runScript does not catch it
WorkflowRaised(log) ==
    /\ pc' = "failed"
    /\ exc' = [type |-> "SSHException", msg |-> Append(log, LogEntry("error", 0))]
    /\ rw' = IdleWorkflow
    /\ cjs' = IdleCall

\* run_workflow up to its status check: slurmClient.run_workflow(...) either
\* raises, or returns a result that is not ok, or one that is ok, with the job
\* id extract_job_id found in its stdout (-1 when none)
RunWorkflowSubmit ==
    /\ pc = "submit"
    /\ \E outcome \in {"raises", "notok", "ok"}, found \in BOOLEAN :
         LET w == wf_next
             jid == IF outcome = "ok" /\ found THEN SchedulerJobId(w) ELSE NoJobId
         IN  CASE outcome = "raises" ->
                    /\ found
                    /\ WorkflowRaised(log_string)
                    /\ UNCHANGED <<wf_next, slurm_job_ids, slurm_job_id_list, log_string>>
               [] outcome = "notok" ->
                    /\ found
                    /\ WorkflowReturned(w, log_string, jid)
                    /\ exc' = exc
               [] outcome = "ok" ->
                    /\ pc' = "submit_check"
                    /\ rw' = [name |-> w, slurm_job_id |-> jid,
                              log_string |-> Append(log_string, LogEntry("submitted", jid))]
                    /\ cjs' = CallCheckJobStatus(<<jid>>)
                    /\ UNCHANGED <<wf_next, slurm_job_ids, slurm_job_id_list, log_string, exc>>
    /\ UNCHANGED <<selected, job_status_dict, todo, poll_errors, imports, output>>
    /\ UNCHANGED <<bvars, cvars>>

\* one status query of check_job_status; an answer that makes the call raise
\* inside the polling loop is counted, and capped by MaxPollErrors
CheckJobStatusQuery ==
    /\ cjs.status = "running"
    /\ \E result \in Results(cjs.ids) :
         LET c == CheckJobStatusStep(cjs, result)
         IN  /\ (pc = "poll_check" /\ c.status = "raised") => poll_errors < MaxPollErrors
             /\ cjs' = c
    /\ UNCHANGED <<selected, pc, wf_next, rw, slurm_job_ids, slurm_job_id_list,
                   job_status_dict, todo, log_string, poll_errors, imports,
                   output, exc>>
    /\ UNCHANGED <<bvars, cvars>>

\* run_workflow after its status check
RunWorkflowChecked ==
    /\ pc = "submit_check"
    /\ cjs.status \in {"returned", "raised"}
    /\ IF cjs.status = "raised" \/ rw.slurm_job_id \notin DictKeys(cjs.result)
       THEN \* SSHException, or KeyError of job_status_dict[slurm_job_id]
            /\ WorkflowRaised(rw.log_string)
            /\ UNCHANGED <<wf_next, slurm_job_ids, slurm_job_id_list, log_string>>
       ELSE /\ WorkflowReturned(rw.name,
                               Append(rw.log_string,
                                      LogEntry("status", rw.slurm_job_id)),
                               rw.slurm_job_id)
            /\ exc' = exc
    /\ UNCHANGED <<selected, job_status_dict, todo, poll_errors, imports, output>>
    /\ UNCHANGED <<bvars, cvars>>

(***************************************************************************)
(* 4. Poll SLURM results: `while slurm_job_id_list:`                       *)
(***************************************************************************)
\* loop head: an empty list ends the loop and the script sets its output,
\* otherwise check_job_status(slurm_job_id_list) is called
PollLoopHead ==
    /\ pc = "poll"
    /\ IF slurm_job_id_list = <<>>
       THEN /\ pc' = "done"
            /\ output' = SetOutput(log_string)
            /\ cjs' = cjs
       ELSE /\ pc' = "poll_check"
            /\ cjs' = CallCheckJobStatus(slurm_job_id_list)
            /\ output' = output
    /\ UNCHANGED <<selected, wf_next, rw, slurm_job_ids, slurm_job_id_list,
                   job_status_dict, todo, log_string, poll_errors, imports, exc>>
    /\ UNCHANGED <<bvars, cvars>>

\* try: job_status_dict, _ = check_job_status(...) except Exception as e:
\* log_string += ...; then `for ... in job_status_dict.items()` starts on
\* whatever job_status_dict is bound to
PollChecked ==
    /\ pc = "poll_check"
    /\ cjs.status \in {"returned", "raised"}
    /\ LET raised == cjs.status = "raised"
           dict == IF raised THEN job_status_dict
                   ELSE [bound |-> TRUE, items |-> cjs.result]
           log == IF raised THEN Append(log_string, LogEntry("error", 0))
                  ELSE log_string
       IN  /\ job_status_dict' = dict
           /\ log_string' = log
           /\ poll_errors' = IF raised THEN poll_errors + 1 ELSE poll_errors
           /\ IF dict.bound
              THEN /\ pc' = "handle"
                   /\ todo' = dict.items
                   /\ exc' = exc
              ELSE /\ pc' = "failed"
                   /\ todo' = todo
                   /\ exc' = [type |-> "UnboundLocalError", msg |-> <<>>]
    /\ cjs' = IdleCall
    /\ UNCHANGED <<selected, wf_next, rw, slurm_job_ids, slurm_job_id_list,
                   imports, output>>
    /\ UNCHANGED <<bvars, cvars>>

HandleBranchUnknownIsBusy(job_state) ==
    IF job_state = <<"TIMEOUT">> THEN "timeout"
    ELSE IF job_state = <<"COMPLETED">> THEN "completed"
    ELSE IF StartsWith(job_state, <<"CANCELLED">>) \/ job_state = <<"FAILED">>
         THEN "cancelled_failed"
    ELSE "busy"

HandleBranchFailedImports(job_state) ==
    IF job_state = <<"TIMEOUT">> THEN "timeout"
    ELSE IF job_state = <<"COMPLETED">> \/ job_state = <<"FAILED">> THEN "completed"
    ELSE IF StartsWith(job_state, <<"CANCELLED">>) THEN "cancelled_failed"
    ELSE IF job_state = <<"PENDING">> \/ job_state = <<"RUNNING">> THEN "busy"
    ELSE "unknown"

HandleBranchTimeoutIsBusy(job_state) ==
    IF job_state = <<"COMPLETED">> THEN "completed"
    ELSE IF StartsWith(job_state, <<"CANCELLED">>) \/ job_state = <<"FAILED">>
         THEN "cancelled_failed"
    ELSE IF job_state \in {<<"PENDING">>, <<"RUNNING">>, <<"TIMEOUT">>} THEN "busy"
    ELSE "unknown"

\* the if / elif chain on job_state
HandleBranch(job_state) ==
    IF job_state = <<"TIMEOUT">> THEN "timeout"
    ELSE IF job_state = <<"COMPLETED">> THEN "completed"
    ELSE IF StartsWith(job_state, <<"CANCELLED">>) \/ job_state = <<"FAILED">>
         THEN "cancelled_failed"
    ELSE IF job_state = <<"PENDING">> \/ job_state = <<"RUNNING">> THEN "busy"
    ELSE "unknown"

\* body of `for slurm_job_id, job_state in job_status_dict.items():` for one
\* item; slurm_job_id_list.remove raises ValueError when the id is absent
HandleJobState ==
    /\ pc = "handle"
    /\ todo # <<>>
    /\ LET slurm_job_id == Head(todo).id
           job_state == Head(todo).state
           branch == HandleBranch(job_state)
           log == IF branch = "busy" THEN log_string
                  ELSE IF branch = "completed"
                       THEN Append(log_string, LogEntry("imported", slurm_job_id))
                       ELSE Append(log_string, LogEntry(branch, slurm_job_id))
       IN  /\ imports' = IF branch = "completed" THEN Append(imports, slurm_job_id)
                         ELSE imports
           /\ log_string' = log
           /\ IF branch = "busy"
              THEN /\ todo' = Tail(todo)
                   /\ UNCHANGED <<pc, slurm_job_id_list, exc>>
              ELSE IF slurm_job_id \in Range(slurm_job_id_list)
                   THEN /\ slurm_job_id_list' = ListRemove(slurm_job_id_list, slurm_job_id)
                        /\ todo' = Tail(todo)
                        /\ UNCHANGED <<pc, exc>>
                   ELSE /\ pc' = "failed"
                        /\ exc' = [type |-> "ValueError", msg |-> <<>>]
                        /\ UNCHANGED <<todo, slurm_job_id_list>>
    /\ UNCHANGED <<selected, wf_next, rw, slurm_job_ids, job_status_dict, cjs,
                   poll_errors, output>>
    /\ UNCHANGED <<bvars, cvars>>

\* end of the for loop: timesleep.sleep(10), back to the loop head
SleepAndLoop ==
    /\ pc = "handle"
    /\ todo = <<>>
    /\ pc' = "poll"
    /\ UNCHANGED <<selected, wf_next, rw, slurm_job_ids, slurm_job_id_list,
                   job_status_dict, todo, log_string, cjs, poll_errors, imports,
                   output, exc>>
    /\ UNCHANGED <<bvars, cvars>>

Next ==
    \/ UnpackData
    \/ UpdateSlurmScripts
    \/ RunWorkflowSubmit
    \/ CheckJobStatusQuery
    \/ RunWorkflowChecked
    \/ PollLoopHead
    \/ PollChecked
    \/ HandleJobState
    \/ SleepAndLoop

Spec == Init /\ [][Next]_vars

(***************************************************************************)
(* Progress.  runScript is one thread that takes its next step as long as  *)
(* it has one (the sleeps end); a remote status query is answered; and a   *)
(* job that is asked about again and again is at some time reported in a   *)
(* state other than PENDING / RUNNING.                                     *)
(***************************************************************************)
AllJobIds == { SchedulerJobId(w) : w \in Workflows }

\* the steps runScript takes by itself
ProgramStep ==
    \/ UnpackData
    \/ UpdateSlurmScripts
    \/ RunWorkflowSubmit
    \/ RunWorkflowChecked
    \/ PollLoopHead
    \/ PollChecked
    \/ HandleJobState
    \/ SleepAndLoop

\* a polling query that asks for job j, and its answer reporting j in a state
\* that is not PENDING / RUNNING
AsksAbout(j) ==
    /\ pc = "poll_check"
    /\ cjs.status = "running"
    /\ j \in Range(cjs.ids)
ReportsTerminal(j) ==
    /\ AsksAbout(j)
    /\ cjs'.status = "returned"
    /\ j \in DictKeys(cjs'.result)
    /\ DictGet(cjs'.result, j) \notin { <<"PENDING">>, <<"RUNNING">> }

\* weak fairness of the program's steps, and strong fairness of each job's
\* terminal report: SF_vars of the query step answered with j terminal, with
\* its enabling condition AsksAbout(j) written out (a pending polling query
\* can always be answered that way)
LiveSpec ==
    /\ Init /\ [][Next]_vars
    /\ WF_vars(ProgramStep)
    /\ \A j \in AllJobIds : ([]<>AsksAbout(j) => []<><<ReportsTerminal(j)>>_vars)

(***************************************************************************)
(* Properties of check_job_status.                                         *)
(***************************************************************************)
AllEmpty(resps) == \A i \in 1..Len(resps) : resps[i] = "empty"

\* C1: as long as every status query of a call came back ok with empty
\* stdout, the call has made at most three queries, has not returned a map,
\* and has raised exactly when the third empty answer arrived.
C1_ThreeEmptyAnswersRaise ==
    (cjs.status # "idle" /\ AllEmpty(cjs.resps)) =>
        /\ Len(cjs.resps) <= 3
        /\ cjs.status # "returned"
        /\ (cjs.status = "raised" <=> Len(cjs.resps) = 3)

C1_Witness ==
    /\ cjs.status = "raised"
    /\ Len(cjs.resps) = 3
    /\ AllEmpty(cjs.resps)

Busy == { <<"PENDING">>, <<"RUNNING">> }
Handling == pc = "handle" /\ todo # <<>>
LoggedKinds(kinds) == { log_string[i].id : i \in { j \in 1..Len(log_string) : log_string[j].kind \in kinds } }
\* ids the log reports as taken out of the polling list
StoppedTracking == LoggedKinds({"timeout", "imported", "cancelled_failed", "unknown"})

\* C3 (as claimed): a status check that raised during polling never ends the
\* run; the loop goes on.
C3_PollErrorDoesNotAbort ==
    poll_errors > 0 => pc # "failed"

\* C4 (as claimed): an exception while submitting a workflow, or in its
\* initial status check, never fails the run.
C4_SubmitErrorDoesNotFailRun ==
    ~(pc = "failed" /\ exc.type = "SSHException")

\* C5: handling a (job id, state) pair whose state is neither PENDING nor
\* RUNNING leaves the id outside the polling list; handling a PENDING or
\* RUNNING pair leaves the polling list as it was.
C5_TerminalStatesLeaveList ==
    [][ Handling =>
          IF Head(todo).state \in Busy
          THEN slurm_job_id_list' = slurm_job_id_list
          ELSE Head(todo).id \notin Range(slurm_job_id_list') ]_vars

C5_Witness ==
    /\ pc = "handle"
    /\ todo = <<>>
    /\ job_status_dict.items =
          << [id |-> SchedulerJobId(1), state |-> <<"NODE_FAIL">>],
             [id |-> SchedulerJobId(2), state |-> <<"RUNNING">>] >>
    /\ slurm_job_id_list = <<SchedulerJobId(2)>>

\* C6: a status query of the polling loop never names a job id the log
\* reports as taken out of the polling list.
C6_RemovedIdNotQueriedAgain ==
    pc = "poll_check" => Range(cjs.ids) \cap StoppedTracking = {}

C6_Witness ==
    /\ pc = "poll_check"
    /\ cjs.resps # <<>>
    /\ SchedulerJobId(1) \in LoggedKinds({"timeout"})
    /\ cjs.ids = <<SchedulerJobId(2)>>

\* C7: the import is invoked in a step exactly when that step handles a pair
\* whose state is COMPLETED, and then for that pair's job id.
C7_ImportOnlyAndAlwaysOnCompleted ==
    [][ IF Handling /\ Head(todo).state = <<"COMPLETED">>
        THEN imports' = Append(imports, Head(todo).id)
        ELSE imports' = imports ]_vars

C7_Witness ==
    /\ imports = <<SchedulerJobId(2)>>
    /\ SchedulerJobId(1) \in LoggedKinds({"cancelled_failed"})
    /\ slurm_job_id_list = <<>>

\* C9 (as claimed): no status query is ever issued for the sentinel -1.
C9_SentinelNeverQueried ==
    ~(NoJobId \in Range(cjs.ids) /\ cjs.resps # <<>>)

C10_EachBatchHandledOnce ==
    /\ \A i \in DOMAIN handled : handled[i] <= 1
    /\ bpc # "failed"

(***************************************************************************)
(* Text. A string is a sequence of parts: a part is one character, or a    *)
(* fixed text that is kept whole (a marker, a flag, a word).               *)
(***************************************************************************)
Digits == <<"0", "1", "2", "3", "4", "5", "6", "7", "8", "9">>
Whitespace == {" ", "\n"}

IsDigit(c) == \E d \in 1..Len(Digits) : Digits[d] = c
DigitValue(c) == (CHOOSE d \in 1..Len(Digits) : Digits[d] = c) - 1

\* the strings of at most n parts over an alphabet
Strings(alphabet, n) == UNION { [1..k -> alphabet] : k \in 0..n }

\* str.strip()
RECURSIVE Strip(_)
Strip(s) ==
    IF s = <<>> THEN s
    ELSE IF Head(s) \in Whitespace THEN Strip(Tail(s))
    ELSE IF s[Len(s)] \in Whitespace THEN Strip(SubSeq(s, 1, Len(s) - 1))
    ELSE s

\* str.isdigit()
IsDigitStr(s) == s # <<>> /\ \A i \in 1..Len(s) : IsDigit(s[i])

\* int(s) of a string of digits
RECURSIVE IntOf(_)
IntOf(s) ==
    IF s = <<>> THEN 0
    ELSE 10 * IntOf(SubSeq(s, 1, Len(s) - 1)) + DigitValue(s[Len(s)])

\* str(n) of an integer
RECURSIVE Str(_)
Str(n) ==
    IF n < 0 THEN <<"-">> \o Str(-n)
    ELSE IF n < 10 THEN <<Digits[n + 1]>>
    ELSE Str(n \div 10) \o <<Digits[(n % 10) + 1]>>

\* s.split(sep), sep being one part: the pieces between its occurrences
RECURSIVE SplitOn(_, _)
SplitOn(s, sep) ==
    IF \A i \in 1..Len(s) : s[i] # sep THEN <<s>>
    ELSE LET k == CHOOSE i \in 1..Len(s) :
                      s[i] = sep /\ \A j \in 1..(i - 1) : s[j] # sep
         IN  <<SubSeq(s, 1, k - 1)>> \o SplitOn(SubSeq(s, k + 1, Len(s)), sep)

\* sep.join(list)
RECURSIVE Join(_, _)
Join(list, sep) ==
    IF list = <<>> THEN <<>>
    ELSE IF Len(list) = 1 THEN list[1]
    ELSE list[1] \o sep \o Join(Tail(list), sep)

(***************************************************************************)
(* SlurmClient.extract_job_id                                              *)
(***************************************************************************)
Marker == "Submitted batch job"

\* next((int(s.strip()) for s in pieces if s.strip().isdigit()), -1)
RECURSIVE FirstDigitPiece(_)
FirstDigitPiece(pieces) ==
    IF pieces = <<>> THEN NoJobId
    ELSE IF IsDigitStr(Strip(Head(pieces))) THEN IntOf(Strip(Head(pieces)))
    ELSE FirstDigitPiece(Tail(pieces))

extract_job_id(stdout) == FirstDigitPiece(SplitOn(stdout, Marker))

\* what a submission can print: the marker, digits, blanks, other text
SubmitAlphabet == {Marker, "1", "2", " ", "x"}
ExtractJobIdCalls ==
    { [op |-> "extract_job_id", status |-> "called", stdout |-> s, result |-> NoJobId]
      : s \in Strings(SubmitAlphabet, MaxStdoutLen) }

ExtractJobId ==
    /\ call.op = "extract_job_id" /\ call.status = "called"
    /\ call' = [call EXCEPT !.status = "returned",
                            !.result = extract_job_id(call.stdout)]
    /\ UNCHANGED <<ovars, bvars>>

(***************************************************************************)
(* SlurmClient.check_job_status: reading a non-empty answer of sacct       *)
(***************************************************************************)
\* line.split(): the words between runs of whitespace
RECURSIVE SplitWords(_)
SplitWords(s) ==
    IF s = <<>> THEN <<>>
    ELSE IF Head(s) \in Whitespace THEN SplitWords(Tail(s))
    ELSE LET n == CHOOSE k \in 1..Len(s) :
                      /\ \A j \in 1..k : s[j] \notin Whitespace
                      /\ k = Len(s) \/ s[k + 1] \in Whitespace
         IN  <<SubSeq(s, 1, n)>> \o SplitWords(SubSeq(s, n + 1, Len(s)))

\* `if line` of the comprehension
LineIsKept(line) == line # <<>>

\* int(line.split()[0]) and line.split()[1] on one line: what they raise
LineOutcome(line) ==
    LET words == SplitWords(line)
    IN  IF Len(words) = 0 THEN "IndexError"
        ELSE IF ~IsDigitStr(words[1]) THEN "ValueError"
        ELSE IF Len(words) = 1 THEN "IndexError"
        ELSE "ok"

\* {int(line.split()[0]): line.split()[1]
\*  for line in result.stdout.split("\n") if line}
ParseJobStatus(stdout) ==
    LET lines == SelectSeq(SplitOn(stdout, "\n"), LineIsKept)
        bad == { i \in 1..Len(lines) : LineOutcome(lines[i]) # "ok" }
        first == CHOOSE i \in bad : \A j \in bad : i <= j
        items == [i \in 1..Len(lines) |->
                    [id |-> IntOf(SplitWords(lines[i])[1]),
                     state |-> SplitWords(lines[i])[2]]]
    IN  IF bad = {}
        THEN [status |-> "returned", exc |-> "none",
              result |-> ParseStatusLines(items, <<>>)]
        ELSE [status |-> "raised", exc |-> LineOutcome(lines[first]),
              result |-> <<>>]

\* the lines sacct prints: one per job, with or without padding and the End
\* column; lines that are empty or hold blanks only
StatusLines ==
    {<<>>, <<" ">>}
      \cup { Str(j) \o <<" ">> \o st
             : j \in AllJobIds, st \in {<<"RUNNING">>, <<"CANCELLED", "+">>} }
      \cup { Str(j) \o <<" ", " ">> \o st \o <<" ", "Unknown", " ">>
             : j \in AllJobIds, st \in {<<"RUNNING">>, <<"CANCELLED", "+">>} }

ReadJobStatusCalls ==
    { [op |-> "check_job_status", status |-> "called",
       stdout |-> s, exc |-> "none", result |-> <<>>]
      : s \in { Join(ls, <<"\n">>) : ls \in Strings(StatusLines, MaxLines) }
               \ {<<>>} }

\* check_job_status from the point where an ok result with a stdout is in hand
ReadJobStatus ==
    /\ call.op = "check_job_status" /\ call.status = "called"
    /\ call.stdout # <<>>
    /\ LET r == ParseJobStatus(call.stdout)
       IN  call' = [call EXCEPT !.status = r.status, !.exc = r.exc,
                                !.result = r.result]
    /\ UNCHANGED <<ovars, bvars>>

(***************************************************************************)
(* SlurmClient.resubmit_job                                                *)
(***************************************************************************)
ResubmitJobReturns(slurm_job_id) ==
    [status |-> "returned", exc |-> "none", result |-> <<slurm_job_id>>]

\* raise NotImplementedError(); the return below it is never reached
resubmit_job(slurm_job_id) ==
    [status |-> "raised", exc |-> "NotImplementedError", result |-> <<>>]

ResubmitJobCalls ==
    { [op |-> "resubmit_job", status |-> "called", slurm_job_id |-> j,
       exc |-> "none", result |-> <<>>] : j \in AllJobIds \cup {NoJobId} }

ResubmitJob ==
    /\ call.op = "resubmit_job" /\ call.status = "called"
    /\ LET r == resubmit_job(call.slurm_job_id)
       IN  call' = [call EXCEPT !.status = r.status, !.exc = r.exc,
                                !.result = r.result]
    /\ UNCHANGED <<ovars, bvars>>

(***************************************************************************)
(* SlurmClient.run_commands and SlurmClient.get_job_status_command         *)
(***************************************************************************)
\* _JOB_STATUS_CMD = "sacct -n -o JobId,State,End -X -j {slurm_job_id}",
\* as the text before the first flag and the flag
JobStatusCmdHead == "sacct -n -o JobId,State,End -X"
JFlag == " -j "

\* the default sep of run_commands
AndSep == <<" && ">>

GetJobStatusCommandCommaJoined(ids) ==
    <<JobStatusCmdHead, JFlag>>
      \o Join([i \in 1..Len(ids) |-> Str(ids[i])], <<",">>)

\* " -j ".join([str(id) for id in slurm_job_ids]), put into _JOB_STATUS_CMD
get_job_status_command(ids) ==
    <<JobStatusCmdHead, JFlag>>
      \o Join([i \in 1..Len(ids) |-> Str(ids[i])], <<JFlag>>)

\* run_commands: the commands it hands to self.run, one call with
\* cmd = sep.join(cmdlist)
run_commands(cmdlist, sep) == <<Join(cmdlist, sep)>>

\* the lists of at most MaxIds job ids: real ones and the sentinel
JobStatusQueryCalls ==
    { [op |-> "check_job_status_query", status |-> "called",
       ids |-> ids, cmd |-> <<>>, sent |-> <<>>]
      : ids \in Strings(AllJobIds \cup {NoJobId}, MaxIds) }

\* one attempt of check_job_status: cmd from get_job_status_command (made
\* once, before the loop) and run_commands([cmd])
JobStatusQuery ==
    /\ call.op = "check_job_status_query" /\ call.status = "called"
    /\ LET cmd == get_job_status_command(call.ids)
       IN  call' = [call EXCEPT !.status = "sent", !.cmd = cmd,
                                !.sent = run_commands(<<cmd>>, AndSep)]
    /\ UNCHANGED <<ovars, bvars>>

(***************************************************************************)
(* SlurmClient.get_workflow_command: the sbatch command                    *)
(***************************************************************************)
\* an Optional[str] argument: None, or a string (the empty one included)
None == [none |-> TRUE, v |-> <<>>]
Some(s) == [none |-> FALSE, v |-> s]

Slash == "/"

MailFlag == " --mail-user="
TimeFlag == " --time="

EmailParamAlways(email) == <<MailFlag>> \o email.v

\* email_param = "" if email is None else f" --mail-user={email}"
EmailParam(email) == IF email.none THEN <<>> ELSE <<MailFlag>> \o email.v

\* time_param = "" if time is None else f" --time={time}"
TimeParam(time) == IF time.none THEN <<>> ELSE <<TimeFlag>> \o time.v

\* job_script = self.slurm_model_jobs[workflow.lower()]
slurm_model_jobs(workflow) == <<"jobs/workflow">> \o Str(workflow) \o <<".sh">>

\* f"sbatch{job_param} --output=omero-%4j.log {slurm_script_path}/{job_script}"
get_workflow_command(workflow, email, time) ==
    <<"sbatch">> \o Join(<<TimeParam(time), EmailParam(email)>>, <<>>)
      \o <<" --output=omero-%4j.log ", "slurm-scripts", "/">>
      \o slurm_model_jobs(workflow)

\* model_path = self.slurm_model_paths[workflow.lower()]
slurm_model_paths(workflow) == <<"workflow">> \o Str(workflow)

\* self.slurm_model_images[workflow.lower()]: the image, group/name
slurm_model_images(workflow) ==
    <<"cellularimagingcf", Slash, "w_workflow">> \o Str(workflow)

\* self.slurm_data_path and self.slurm_images_path as configured
slurm_data_path == <<"my-scratch", Slash, "data">>
slurm_images_path == <<"my-scratch", Slash, "singularity_images">>

\* the four variables get_workflow_command derives itself
sbatch_env(workflow, workflow_version, input_data) ==
    LET model_path == slurm_model_paths(workflow)
        image == SplitOn(slurm_model_images(workflow), Slash)[2]
    IN  [k \in {"DATA_PATH", "IMAGE_PATH", "IMAGE_VERSION", "SINGULARITY_IMAGE"}
         |-> CASE k = "DATA_PATH" -> slurm_data_path \o <<Slash>> \o input_data
               [] k = "IMAGE_PATH" -> slurm_images_path \o <<Slash>> \o model_path
               [] k = "IMAGE_VERSION" -> workflow_version
               [] k = "SINGULARITY_IMAGE" ->
                    image \o <<"_">> \o workflow_version \o <<".sif">>]

\* key.upper() of the parameter names in use
Upper(key) ==
    CASE key = "data_path" -> "DATA_PATH"
      [] key = "diameter" -> "DIAMETER"
      [] key = "Diameter" -> "DIAMETER"

\* {key.upper(): f"{value}" for key, value in kwargs.items()}: of two
\* parameters with the same uppercased key the later one stays
workflow_params_to_envvars(kwargs) ==
    [k \in { Upper(kwargs[i].key) : i \in 1..Len(kwargs) }
     |-> LET last == CHOOSE i \in 1..Len(kwargs) :
                        /\ Upper(kwargs[i].key) = k
                        /\ \A j \in (i + 1)..Len(kwargs) :
                             Upper(kwargs[j].key) # k
         IN  Str(kwargs[last].value)]

\* env = {**sbatch_env, **workflow_env}
get_workflow_command_env(workflow, workflow_version, input_data, kwargs) ==
    LET sbatch == sbatch_env(workflow, workflow_version, input_data)
        workflow_env == workflow_params_to_envvars(kwargs)
    IN  [k \in DOMAIN sbatch \cup DOMAIN workflow_env
         |-> IF k \in DOMAIN workflow_env THEN workflow_env[k] ELSE sbatch[k]]

Versions == {<<"v1.0">>, <<"latest">>}
InputData == {<<"abc">>}
ParamNames == {"data_path", "diameter", "Diameter"}
ParamValues == {0, 12}

\* **kwargs: parameters with distinct names, in the order given
Kwargs ==
    { kw \in Strings([key : ParamNames, value : ParamValues], MaxParams) :
        \A i, j \in 1..Len(kw) : i # j => kw[i].key # kw[j].key }

Emails == {None, Some(<<>>), Some(<<"user", "@", "example.org">>)}
Times == {None, Some(<<>>), Some(<<"0", "0", ":", "4", "5", ":", "0", "0">>)}

GetWorkflowCommandCalls ==
    { [op |-> "get_workflow_command", status |-> "called", workflow |-> w,
       workflow_version |-> v, input_data |-> d, email |-> e, time |-> t,
       kwargs |-> kw, result |-> <<>>, env |-> <<>>]
      : w \in Workflows, v \in Versions, d \in InputData, e \in Emails,
        t \in Times, kw \in Kwargs }

GetWorkflowCommand ==
    /\ call.op = "get_workflow_command" /\ call.status = "called"
    /\ call' = [call EXCEPT
                  !.status = "returned",
                  !.result = get_workflow_command(call.workflow, call.email,
                                                  call.time),
                  !.env = get_workflow_command_env(call.workflow,
                                                   call.workflow_version,
                                                   call.input_data,
                                                   call.kwargs)]
    /\ UNCHANGED <<ovars, bvars>>

(***************************************************************************)
(* SlurmClient.run_commands_split_out, and the remote shell that runs the  *)
(* one command line it sends.                                              *)
(***************************************************************************)
\* _OUT_SEP
OutSep == "--split--"
\* the shell's `;` between two commands, and `echo --split--`
Semicolon == " ; "
EchoSep == "echo --split--"
\* sep = f" ; echo {self._OUT_SEP} ; "
SplitSep == <<Semicolon, EchoSep, Semicolon>>

\* what a command prints: nothing, one line, two lines; echo prints its
\* argument and a newline
Prints(command) ==
    IF command = <<>> \/ command = <<"true">> THEN <<>>
    ELSE IF command = <<"ls a">> THEN <<"a", "\n">>
    ELSE IF command = <<"ls b">> THEN <<"b1", "\n", "b2", "\n">>
    ELSE <<OutSep, "\n">>

ShellCommands == {"true", "ls a", "ls b", EchoSep}

\* the stdout of a command line: what its commands print, one after another
RECURSIVE Output(_)
Output(commands) ==
    IF commands = <<>> THEN <<>>
    ELSE Prints(Head(commands)) \o Output(Tail(commands))

Shell(cmd) == Output(SplitOn(cmd, Semicolon))

SplitResponseOnNewline(response) == SplitOn(response, "\n")

\* split_responses = response.split(self._OUT_SEP)
SplitResponse(response) == SplitOn(response, OutSep)

\* the outcome of run_commands_split_out when the round trip's result is ok
\* or not
run_commands_split_out(cmdlist, ok) ==
    LET sent == run_commands(cmdlist, SplitSep)
    IN  IF ok
        THEN [status |-> "returned", exc |-> "none", sent |-> sent,
              result |-> SplitResponse(Shell(sent[1]))]
        ELSE [status |-> "raised", exc |-> "SSHException", sent |-> sent,
              result |-> <<>>]

RunCommandsSplitOutCalls ==
    { [op |-> "run_commands_split_out", status |-> "called",
       cmdlist |-> [i \in 1..k |-> <<f[i]>>], ok |-> TRUE,
       exc |-> "none", sent |-> <<>>, result |-> <<>>]
      : k \in 0..MaxCmds, f \in [1..MaxCmds -> ShellCommands] }

RunCommandsSplitOut ==
    /\ call.op = "run_commands_split_out" /\ call.status = "called"
    /\ \E ok \in BOOLEAN :
         LET r == run_commands_split_out(call.cmdlist, ok)
         IN  call' = [call EXCEPT !.status = r.status, !.ok = ok, !.exc = r.exc,
                                  !.sent = r.sent, !.result = r.result]
    /\ UNCHANGED <<ovars, bvars>>

(***************************************************************************)
(* SlurmClient.validate, and Connection.run underneath it: run opens the   *)
(* connection when needed and raises when that fails.                      *)
(***************************************************************************)
Transports == {"up", "unreachable", "auth_rejected"}

\* self.run('echo " "'): a Result, ok or not, over a working transport; the
\* transport's exception otherwise
RunOutcomes(transport) ==
    IF transport = "up"
    THEN { [raised |-> "none", ok |-> b] : b \in BOOLEAN }
    ELSE IF transport = "unreachable"
         THEN { [raised |-> "NoValidConnectionsError", ok |-> FALSE] }
         ELSE { [raised |-> "AuthenticationException", ok |-> FALSE] }

\* self.init_slurm(): returns, raises SSHException (a result that is not ok,
\* or its own validate() giving False), or the transport fails under it
InitSlurmOutcomes == {"none", "SSHException", "NoValidConnectionsError"}

\* connected = self.run('echo " "').ok; init_slurm() under
\* `except SSHException: return False`; return connected
validate(validate_slurm_setup, run, init_slurm) ==
    IF run.raised # "none"
    THEN [status |-> "raised", exc |-> run.raised, result |-> FALSE]
    ELSE IF run.ok /\ validate_slurm_setup
         THEN IF init_slurm = "none"
              THEN [status |-> "returned", exc |-> "none", result |-> run.ok]
              ELSE IF init_slurm = "SSHException"
                   THEN [status |-> "returned", exc |-> "none", result |-> FALSE]
                   ELSE [status |-> "raised", exc |-> init_slurm, result |-> FALSE]
         ELSE [status |-> "returned", exc |-> "none", result |-> run.ok]

ValidateCalls ==
    { [op |-> "validate", status |-> "called", validate_slurm_setup |-> b,
       transport |-> t, run |-> [raised |-> "none", ok |-> FALSE],
       exc |-> "none", result |-> FALSE]
      : b \in BOOLEAN, t \in Transports }

Validate ==
    /\ call.op = "validate" /\ call.status = "called"
    /\ \E run \in RunOutcomes(call.transport), init_slurm \in InitSlurmOutcomes :
         LET r == validate(call.validate_slurm_setup, run, init_slurm)
         IN  call' = [call EXCEPT !.status = r.status, !.run = run,
                                  !.exc = r.exc, !.result = r.result]
    /\ UNCHANGED <<ovars, bvars>>

(***************************************************************************)
(* SlurmClient.extract_parts_from_url and SlurmClient.convert_url          *)
(***************************************************************************)

\* url_parts.index("tree"): the first part that is "tree", 0 when none is
RECURSIVE IndexOfTree(_, _)
IndexOfTree(url_parts, i) ==
    IF i > Len(url_parts) THEN 0
    ELSE IF url_parts[i] = <<"tree">> THEN i
    ELSE IndexOfTree(url_parts, i + 1)

\* (url_parts, branch), or the exception raised
extract_parts_from_url(input_url) ==
    LET url_parts == SplitOn(input_url, Slash)
        tree == IndexOfTree(url_parts, 1)
    IN  IF Len(url_parts) < 5 \/ url_parts[3] # <<"github.com">>
        THEN [raised |-> "ValueError", url_parts |-> url_parts, branch |-> <<>>]
        ELSE IF tree = 0
        THEN [raised |-> "none", url_parts |-> url_parts, branch |-> <<"master">>]
        ELSE IF tree + 1 > Len(url_parts)
        THEN [raised |-> "IndexError", url_parts |-> url_parts, branch |-> <<>>]
        ELSE [raised |-> "none", url_parts |-> url_parts,
              branch |-> url_parts[tree + 1]]

\* https://github.com/<org>/<repo>/raw/<branch>/descriptor.json
RawUrl(org, repo, branch) ==
    <<"https:", Slash, Slash, "github.com", Slash>> \o org \o <<Slash>> \o repo
      \o <<Slash, "raw", Slash>> \o branch \o <<Slash, "descriptor.json">>

\* f"https://github.com/{url_parts[3]}/{url_parts[4]}/raw/{branch}/descriptor.json"
convert_url(input_url) ==
    LET e == extract_parts_from_url(input_url)
    IN  IF e.raised # "none"
        THEN [status |-> "raised", exc |-> e.raised, result |-> <<>>]
        ELSE [status |-> "returned", exc |-> "none",
              result |-> RawUrl(e.url_parts[4], e.url_parts[5], e.branch)]

\* the URLs https://<host>/<name>/.../<name> of at most MaxPathLen names; a
\* name can be "tree", and empty after a trailing slash
Hosts == {"github.com", "gitlab.com"}
Names == {<<"tree">>, <<"nl">>, <<"dev">>, <<>>}
Urls ==
    { Join(<< <<"https:">>, <<>>, <<h>> >> \o path, <<Slash>>)
      : h \in Hosts, path \in Strings(Names, MaxPathLen) }

ConvertUrlCalls ==
    { [op |-> "convert_url", status |-> "called", input_url |-> u,
       exc |-> "none", result |-> <<>>] : u \in Urls }

ConvertUrl ==
    /\ call.op = "convert_url" /\ call.status = "called"
    /\ LET r == convert_url(call.input_url)
       IN  call' = [call EXCEPT !.status = r.status, !.exc = r.exc,
                                !.result = r.result]
    /\ UNCHANGED <<ovars, bvars>>

(***************************************************************************)
(* SlurmClient.pull_descriptor_from_github and the methods that call it:   *)
(* init_workflows (from the constructor) and get_workflow_parameters.      *)
(***************************************************************************)
\* requests.get(raw_url): a 2xx response, another response, or no response
\* at all (requests raises ConnectionError)
Responses == {"ok", "not_ok", "network_failure"}

\* self.slurm_model_repos[workflow] as configured
RepoUrls ==
    { Join(<< <<"https:">>, <<>>, <<h>>, <<"nl">>, <<"dev">> >>, <<Slash>>)
      : h \in Hosts }

\* the outcome of one call, and the URLs it fetched
pull_descriptor_from_github(git_repo, response) ==
    LET raw_url == convert_url(git_repo)
    IN  IF raw_url.status = "raised"
        THEN [status |-> "raised", exc |-> raw_url.exc, fetched |-> <<>>,
              result |-> <<>>]
        ELSE IF response = "network_failure"
        THEN [status |-> "raised", exc |-> "ConnectionError",
              fetched |-> <<raw_url.result>>, result |-> <<>>]
        ELSE IF response = "ok"
        THEN [status |-> "returned", exc |-> "none",
              fetched |-> <<raw_url.result>>, result |-> <<"json_descriptor">>]
        ELSE [status |-> "raised", exc |-> "ValueError",
              fetched |-> <<raw_url.result>>, result |-> <<>>]

PullDescriptorCalls ==
    { [op |-> "pull_descriptor_from_github", status |-> "called",
       git_repo |-> u, response |-> "ok", exc |-> "none", fetched |-> <<>>,
       result |-> <<>>] : u \in RepoUrls }

PullDescriptor ==
    /\ call.op = "pull_descriptor_from_github" /\ call.status = "called"
    /\ \E response \in Responses :
         LET r == pull_descriptor_from_github(call.git_repo, response)
         IN  call' = [call EXCEPT !.status = r.status, !.response = response,
                                  !.exc = r.exc, !.fetched = r.fetched,
                                  !.result = r.result]
    /\ UNCHANGED <<ovars, bvars>>

\* a client right after construction: init_workflows has pulled the
\* descriptor of every configured workflow once
GetWorkflowParametersCalls ==
    { [op |-> "get_workflow_parameters", status |-> "constructed",
       workflows |-> ws, workflow |-> 0, calls |-> 0,
       fetched |-> SortedSeq(ws)]
      : ws \in (SUBSET Workflows) \ {{}} }

\* one more get_workflow_parameters(workflow) on the same client, the fetch
\* answered with ok: json_descriptor = self.pull_descriptor_from_github(workflow)
GetWorkflowParameters ==
    /\ call.op = "get_workflow_parameters"
    /\ call.calls < MaxCalls
    /\ \E w \in call.workflows :
         call' = [call EXCEPT !.status = "returned", !.workflow = w,
                              !.calls = call.calls + 1,
                              !.fetched = Append(call.fetched, w)]
    /\ UNCHANGED <<ovars, bvars>>

(***************************************************************************)
(* SlurmClient.get_unzip_command                                           *)
(***************************************************************************)
\* the indentation of the continuation lines inside the f-string
Indent == 20

\* what a backslash-newline inside the f-string leaves between two words:
\* the blank before the backslash and the indentation of the next line
Gap == [i \in 1..(Indent + 1) |-> " "]

\* the `;` that ends the mkdir command
CmdEnd == ";"

DefaultFilter == <<"*.tiff", " ", "*.tif">>

\* {self.slurm_data_path}/{zipfile}{sub}
DataDir(path, zipfile, sub) ==
    path \o <<Slash>> \o zipfile \o sub

DataIn == <<Slash, "data", Slash, "in">>
DataOut == <<Slash, "data", Slash, "out">>
DataGt == <<Slash, "data", Slash, "gt">>

\* a composer that does not name data/gt in its mkdir
GetUnzipCommandNoGt(path, zipfile, filter_filetypes) ==
    LET filter == IF filter_filetypes = None THEN <<"*">>
                  ELSE filter_filetypes.v
    IN  <<"mkdir", " ">> \o DataDir(path, zipfile, <<>>) \o Gap
        \o DataDir(path, zipfile, <<Slash, "data">>) \o Gap
        \o DataDir(path, zipfile, DataIn) \o Gap
        \o DataDir(path, zipfile, DataOut)
        \o <<CmdEnd>> \o Gap
        \o <<"7z", " ", "e", " ", "-y", " ", "-o">>
        \o DataDir(path, zipfile, DataIn) \o Gap
        \o DataDir(path, zipfile, <<>>) \o <<".zip", " ">>
        \o filter

get_unzip_command(path, zipfile, filter_filetypes) ==
    LET filter == IF filter_filetypes = None THEN <<"*">>
                  ELSE filter_filetypes.v
    IN  <<"mkdir", " ">> \o DataDir(path, zipfile, <<>>) \o Gap
        \o DataDir(path, zipfile, <<Slash, "data">>) \o Gap
        \o DataDir(path, zipfile, DataIn) \o Gap
        \o DataDir(path, zipfile, DataOut) \o Gap
        \o DataDir(path, zipfile, DataGt)
        \o <<CmdEnd>> \o Gap
        \o <<"7z", " ", "e", " ", "-y", " ", "-o">>
        \o DataDir(path, zipfile, DataIn) \o Gap
        \o DataDir(path, zipfile, <<>>) \o <<".zip", " ">>
        \o filter

SlurmDataPaths == {<<"my-scratch">>, <<Slash, "data", Slash, "my-scratch">>}
ZipFiles == {<<"abc">>, <<"data">>, <<"in">>, <<"a", " ", "b">>}
Filters == {Some(DefaultFilter), Some(<<"*">>), None}

GetUnzipCommandCalls ==
    { [op |-> "get_unzip_command", status |-> "called", slurm_data_path |-> p,
       zipfile |-> z, filter_filetypes |-> f, result |-> <<>>]
      : p \in SlurmDataPaths, z \in ZipFiles, f \in Filters }

GetUnzipCommand ==
    /\ call.op = "get_unzip_command" /\ call.status = "called"
    /\ call' = [call EXCEPT
                  !.status = "returned",
                  !.result = get_unzip_command(call.slurm_data_path,
                                               call.zipfile,
                                               call.filter_filetypes)]
    /\ UNCHANGED <<ovars, bvars>>

(***************************************************************************)
(* chunk of the batched script                                             *)
(***************************************************************************)
\* tuple(islice(it, n)): the next n elements of the iterator, or all that
\* are left
Islice(it, n) == SubSeq(it, 1, IF n < Len(it) THEN n ELSE Len(it))

\* iter(callable, ()): call until the sentinel () comes back
RECURSIVE IterUntilEmpty(_, _)
IterUntilEmpty(it, n) ==
    LET t == Islice(it, n)
    IN  IF t = <<>> THEN <<>>
        ELSE <<t>> \o IterUntilEmpty(SubSeq(it, Len(t) + 1, Len(it)), n)

\* a chunker that yields full chunks only
ChunkFullOnly(lst, n) ==
    LET all == IterUntilEmpty(lst, n)
    IN  IF all # <<>> /\ Len(all[Len(all)]) < n
        THEN SubSeq(all, 1, Len(all) - 1) ELSE all

chunk(lst, n) == IterUntilEmpty(lst, n)

\* the IDs and Batch_Size inputs of the script
DataIds == Strings(1..2, MaxDataIds)
BatchSizes == 0..MaxBatchSize

ChunkCalls ==
    { [op |-> "chunk", status |-> "called", lst |-> l, n |-> k,
       result |-> <<>>] : l \in DataIds, k \in BatchSizes }

\* batch_ids = chunk(data_ids, batch_size), consumed by enumerate(batch_ids)
Chunk ==
    /\ call.op = "chunk" /\ call.status = "called"
    /\ call' = [call EXCEPT !.status = "returned",
                            !.result = chunk(call.lst, call.n)]
    /\ UNCHANGED <<ovars, bvars>>

(***************************************************************************)
(* SlurmClient.str_to_class                                                *)
(***************************************************************************)
\* the modules that can be imported and the classes they hold
Modules == {"omero.scripts"}
Classes(module_name) ==
    IF module_name = "omero.scripts" THEN {"Float", "Int", "Bool", "String"}
    ELSE {}

\* what the call does: the errors it logs, and what `return class_ or None`
\* gives; class_ is unbound when either except branch was taken
str_to_class(module_name, class_name, truthy) ==
    IF module_name \notin Modules
    THEN [status |-> "raised", exc |-> "UnboundLocalError",
          logged |-> <<"Module does not exist">>, result |-> <<>>]
    ELSE IF class_name \notin Classes(module_name)
    THEN [status |-> "raised", exc |-> "UnboundLocalError",
          logged |-> <<"Class does not exist">>, result |-> <<>>]
    ELSE [status |-> "returned", exc |-> "none", logged |-> <<>>,
          result |-> IF truthy THEN <<"instance", module_name, class_name>>
                     ELSE <<"None">>]

ModuleNames == {"omero.scripts", "omero.script"}
ClassNames == {"Float", "Int", "Bool", "String", "Double"}

\* truthy: whether bool(instance) is true
StrToClassCalls ==
    { [op |-> "str_to_class", status |-> "called", module_name |-> m,
       class_name |-> c, truthy |-> t, exc |-> "none", logged |-> <<>>,
       result |-> <<>>]
      : m \in ModuleNames, c \in ClassNames, t \in BOOLEAN }

StrToClass ==
    /\ call.op = "str_to_class" /\ call.status = "called"
    /\ LET r == str_to_class(call.module_name, call.class_name, call.truthy)
       IN  call' = [call EXCEPT !.status = r.status, !.exc = r.exc,
                                !.logged = r.logged, !.result = r.result]
    /\ UNCHANGED <<ovars, bvars>>

(***************************************************************************)
(* The methods of SlurmClient, each called on its own with an argument     *)
(* drawn from a bounded set.                                               *)
(***************************************************************************)
ClientInit ==
    /\ \/ call \in ExtractJobIdCalls
       \/ call \in ReadJobStatusCalls
       \/ call \in ResubmitJobCalls
       \/ call \in JobStatusQueryCalls
       \/ call \in GetWorkflowCommandCalls
       \/ call \in RunCommandsSplitOutCalls
       \/ call \in ValidateCalls
       \/ call \in ConvertUrlCalls
       \/ call \in PullDescriptorCalls
       \/ call \in GetWorkflowParametersCalls
       \/ call \in GetUnzipCommandCalls
       \/ call \in ChunkCalls
       \/ call \in StrToClassCalls
    /\ selected = {}
    /\ pc = "off"
    /\ wf_next = 0
    /\ rw = IdleWorkflow
    /\ slurm_job_ids = <<>>
    /\ slurm_job_id_list = <<>>
    /\ job_status_dict = [bound |-> FALSE, items |-> <<>>]
    /\ todo = <<>>
    /\ log_string = <<>>
    /\ cjs = IdleCall
    /\ poll_errors = 0
    /\ imports = <<>>
    /\ output = [set |-> FALSE, Message |-> <<>>]
    /\ exc = NoException
    /\ bpc = "off"
    /\ processes = <<>>
    /\ remaining_batches = {}
    /\ finished = <<>>
    /\ pass_todo = <<>>
    /\ print_result = <<>>
    /\ handled = <<>>

ClientNext ==
    \/ ExtractJobId
    \/ ReadJobStatus
    \/ ResubmitJob
    \/ JobStatusQuery
    \/ GetWorkflowCommand
    \/ RunCommandsSplitOut
    \/ Validate
    \/ ConvertUrl
    \/ PullDescriptor
    \/ GetWorkflowParameters
    \/ GetUnzipCommand
    \/ Chunk
    \/ StrToClass

ClientSpec == ClientInit /\ [][ClientNext]_vars

(***************************************************************************)
(* Claims about the methods of SlurmClient.                                *)
(***************************************************************************)
\* the digits of s from position i on
RECURSIVE DigitRun(_, _)
DigitRun(s, i) ==
    IF i > Len(s) \/ ~IsDigit(s[i]) THEN <<>>
    ELSE <<s[i]>> \o DigitRun(s, i + 1)

\* the positions where s reads "Submitted batch job <N>"
SubmittedAt(s) ==
    { i \in 1..Len(s) : /\ s[i] = Marker
                        /\ i + 2 <= Len(s)
                        /\ s[i + 1] = " "
                        /\ IsDigit(s[i + 2]) }

Extracted == call.op = "extract_job_id" /\ call.status = "returned"

\* C11 (as claimed): when the submission output holds "Submitted batch job
\* <N>" somewhere, with any text before or after it, extract_job_id returns N.
C11_SubmittedIdExtracted ==
    (Extracted /\ SubmittedAt(call.stdout) # {})
        => \E i \in SubmittedAt(call.stdout) :
               call.result = IntOf(DigitRun(call.stdout, i + 2))

\* C12 (as claimed): when the submission output does not hold the marker
\* "Submitted batch job", extract_job_id returns -1, also for an output that
\* is nothing but digits.
C12_NoMarkerGivesSentinel ==
    (Extracted /\ Marker \notin Range(call.stdout)) => call.result = NoJobId

\* the lines of an answer, and whether each is blank or `<jobid> <state> ...`
AnswerLines(stdout) == SplitOn(stdout, "\n")
IsBlank(line) == Strip(line) = <<>>
IsStatusLine(line) ==
    Len(SplitWords(line)) >= 2 /\ IsDigitStr(SplitWords(line)[1])
NonBlank(stdout) ==
    { i \in 1..Len(AnswerLines(stdout)) : ~IsBlank(AnswerLines(stdout)[i]) }
LineId(stdout, i) == IntOf(SplitWords(AnswerLines(stdout)[i])[1])
LineState(stdout, i) == SplitWords(AnswerLines(stdout)[i])[2]

\* C13 (as claimed): for a non-empty answer whose lines are blank (empty or
\* whitespace only) or of the form `<jobid> <state> ...`, check_job_status
\* returns, without error, the map from the job id of each non-blank line to
\* that line's second word.
C13_AnswerParsedBlankLinesIgnored ==
    ( /\ call.op = "check_job_status" /\ call.status # "called"
      /\ \A i \in 1..Len(AnswerLines(call.stdout)) :
            IsBlank(AnswerLines(call.stdout)[i])
              \/ IsStatusLine(AnswerLines(call.stdout)[i]) )
    => /\ call.status = "returned"
       /\ DictKeys(call.result)
            = { LineId(call.stdout, i) : i \in NonBlank(call.stdout) }
       /\ \A i \in NonBlank(call.stdout) :
            \/ DictGet(call.result, LineId(call.stdout, i)) = LineState(call.stdout, i)
            \/ \E j \in NonBlank(call.stdout) :
                   j > i /\ LineId(call.stdout, j) = LineId(call.stdout, i)

\* C14 (as claimed): whenever check_job_status returns, the keys of the
\* returned map are exactly the job ids that were asked about.
C14_StatusForEveryRequestedId ==
    cjs.status = "returned" => DictKeys(cjs.result) = Range(cjs.ids)

\* C15: a status query whose result is not ok ends the call with SSHException
\* at once: the not-ok answer is the last one of the call, whatever the number
\* of empty answers before it, and it is not counted as a retry.
C15_NotOkRaisesAtOnce ==
    \A i \in 1..Len(cjs.resps) :
        cjs.resps[i] = "notok"
            => /\ i = Len(cjs.resps)
               /\ cjs.status = "raised"
               /\ cjs.retry_status = i - 1
               /\ AllEmpty(SubSeq(cjs.resps, 1, i - 1))

\* a query failed after the accounting had answered with nothing twice
C15_Witness ==
    /\ cjs.status = "raised"
    /\ cjs.resps = <<"empty", "empty", "notok">>

HandlingTimeout == Handling /\ HandleBranch(Head(todo).state) = "timeout"

\* C16: resubmit_job raises NotImplementedError for every job id and returns
\* nothing; and the polling loop does not call it for a job reported TIMEOUT:
\* the job is logged and dropped from the list, no NotImplementedError ends
\* the run and no new job id enters the list.
C16_ResubmitUnimplementedAndUnused ==
    /\ \A j \in AllJobIds \cup {NoJobId} :
          /\ resubmit_job(j).status = "raised"
          /\ resubmit_job(j).exc = "NotImplementedError"
          /\ resubmit_job(j).result = <<>>
    /\ [][HandlingTimeout =>
            /\ exc'.type # "NotImplementedError"
            /\ call' = call
            /\ log_string' = Append(log_string, LogEntry("timeout", Head(todo).id))
            /\ Range(slurm_job_id_list')
                 \subseteq Range(slurm_job_id_list) \ {Head(todo).id}]_vars

\* a job was reported TIMEOUT and handled, and the run goes on
C16_Witness ==
    /\ pc = "handle"
    /\ exc = NoException
    /\ LoggedKinds({"timeout"}) # {}
    /\ LoggedKinds({"timeout"}) \cap Range(slurm_job_id_list) = {}

\* C17: for a non-empty list of job ids an attempt of check_job_status sends
\* exactly one remote command, the one get_job_status_command made, and that
\* command has one -j flag per id, each followed by its id, in order.
C17_OneCommandOneFlagPerId ==
    ( /\ call.op = "check_job_status_query" /\ call.status = "sent"
      /\ call.ids # <<>> )
    => /\ Len(call.sent) = 1
       /\ call.sent[1] = call.cmd
       /\ LET pieces == SplitOn(call.cmd, JFlag)
          IN  /\ Len(pieces) = Len(call.ids) + 1
              /\ pieces[1] = <<JobStatusCmdHead>>
              /\ \A k \in 1..Len(call.ids) :
                    pieces[k + 1] = Str(call.ids[k])

\* a query about three jobs, the sentinel among them, was sent
C17_Witness ==
    /\ call.op = "check_job_status_query" /\ call.status = "sent"
    /\ Len(call.ids) = MaxIds
    /\ NoJobId \in Range(call.ids)
    /\ Cardinality(Range(call.ids)) > 1

\* the text cmd holds the flag, followed at once by the value
HasFlagWith(cmd, flag, value) ==
    \E i \in 1..Len(cmd) :
        cmd[i] = flag /\ SubSeq(cmd, i + 1, i + Len(value)) = value

\* C18: the command of get_workflow_command holds "--mail-user=" exactly when
\* email is not None, and then followed by the email; it holds "--time="
\* exactly when time is not None, and then followed by the time. So with both
\* None it holds neither flag and with both given it holds both.
C18_FlagsFollowArguments ==
    (call.op = "get_workflow_command" /\ call.status = "returned")
    => /\ MailFlag \in Range(call.result) <=> ~call.email.none
       /\ TimeFlag \in Range(call.result) <=> ~call.time.none
       /\ ~call.email.none => HasFlagWith(call.result, MailFlag, call.email.v)
       /\ ~call.time.none => HasFlagWith(call.result, TimeFlag, call.time.v)

\* a command was composed for a time limit and no email
C18_Witness ==
    /\ call.op = "get_workflow_command" /\ call.status = "returned"
    /\ call.email.none /\ ~call.time.none /\ call.time.v # <<>>

SplitOutDone == call.op = "run_commands_split_out" /\ call.status # "called"
NoSentinelPrinted ==
    \A i \in 1..Len(call.cmdlist) : OutSep \notin Range(Prints(call.cmdlist[i]))

\* C19 (as claimed): run_commands_split_out on N commands makes one round
\* trip; when its result is ok and no command prints the sentinel it returns
\* N segments, the i-th being what the i-th command printed; when the result
\* is not ok it raises SSHException and returns nothing.
C19_SegmentIsCommandOutput ==
    SplitOutDone
    => /\ Len(call.sent) = 1
       /\ (call.ok /\ NoSentinelPrinted)
            => /\ call.status = "returned"
               /\ Len(call.result) = Len(call.cmdlist)
               /\ \A i \in 1..Len(call.cmdlist) :
                     call.result[i] = Prints(call.cmdlist[i])
       /\ ~call.ok
            => call.status = "raised" /\ call.exc = "SSHException"
               /\ call.result = <<>>

\* C19 (amended): as above for N >= 1, but every segment after the first
\* starts with the newline that `echo --split--` prints after the sentinel:
\* the first segment is what the first command printed, the i-th is a newline
\* followed by what the i-th command printed. For N = 0 there is one empty
\* segment.
C19_SegmentIsOutputAfterEchoNewline ==
    SplitOutDone
    => /\ Len(call.sent) = 1
       /\ (call.ok /\ NoSentinelPrinted)
            => /\ call.status = "returned"
               /\ Len(call.cmdlist) = 0 => call.result = << <<>> >>
               /\ Len(call.cmdlist) >= 1
                    => /\ Len(call.result) = Len(call.cmdlist)
                       /\ call.result[1] = Prints(call.cmdlist[1])
                       /\ \A i \in 2..Len(call.cmdlist) :
                             call.result[i] = <<"\n">> \o Prints(call.cmdlist[i])
       /\ ~call.ok
            => call.status = "raised" /\ call.exc = "SSHException"
               /\ call.result = <<>>

\* three commands that print no sentinel were run in one round trip and
\* their outputs came back
C19_Witness ==
    /\ SplitOutDone /\ call.ok /\ NoSentinelPrinted
    /\ Len(call.cmdlist) = MaxCmds
    /\ call.status = "returned"
    /\ \A i \in 1..Len(call.cmdlist) : Prints(call.cmdlist[i]) # <<>>

\* C20 (as claimed): when the transport cannot connect or authenticate,
\* validate() returns False and does not raise; and it returns True only
\* when the no-op command ran with an ok result.
C20_ValidateReturnsFalseOffline ==
    (call.op = "validate" /\ call.status # "called")
    => /\ call.transport # "up"
            => call.status = "returned" /\ call.result = FALSE
       /\ (call.status = "returned" /\ call.result)
            => call.run.raised = "none" /\ call.run.ok

\* the parts of a URL, and whether it is https://github.com/<org>/<repo>
\* with or without /tree/<branch>, the names not empty
UrlParts == SplitOn(call.input_url, Slash)
IsGithubRepoUrl ==
    /\ Len(UrlParts) >= 5
    /\ UrlParts[1] = <<"https:">> /\ UrlParts[2] = <<>>
    /\ UrlParts[3] = <<"github.com">>
    /\ UrlParts[4] # <<>> /\ UrlParts[5] # <<>>
ConvertedUrl == call.op = "convert_url" /\ call.status # "called"

\* C23 (as claimed): convert_url turns https://github.com/<org>/<repo> into
\* .../<org>/<repo>/raw/master/descriptor.json and
\* https://github.com/<org>/<repo>/tree/<branch> into
\* .../raw/<branch>/descriptor.json, for every org, repo and branch name, an
\* org or repo named "tree" included; for a host other than github.com it
\* raises ValueError.
C23_ConvertUrlAnyNames ==
    ConvertedUrl
    => /\ (IsGithubRepoUrl /\ Len(UrlParts) = 5)
            => /\ call.status = "returned"
               /\ call.result = RawUrl(UrlParts[4], UrlParts[5], <<"master">>)
       /\ (IsGithubRepoUrl /\ Len(UrlParts) = 7
             /\ UrlParts[6] = <<"tree">> /\ UrlParts[7] # <<>>)
            => /\ call.status = "returned"
               /\ call.result = RawUrl(UrlParts[4], UrlParts[5], UrlParts[7])
       /\ (Len(UrlParts) >= 3 /\ UrlParts[3] # <<"github.com">>)
            => call.status = "raised" /\ call.exc = "ValueError"

\* how often the descriptor of workflow w was fetched over HTTP
Fetches(w) == Cardinality({ i \in 1..Len(call.fetched) : call.fetched[i] = w })

\* C21 (as claimed): once the descriptor of a workflow has been fetched,
\* later get_workflow_parameters calls for it on the same client fetch
\* nothing: no descriptor is fetched twice.
C21_DescriptorFetchedOnce ==
    call.op = "get_workflow_parameters"
        => \A w \in call.workflows : Fetches(w) <= 1

\* C22 (as claimed): a call of pull_descriptor_from_github for a repository
\* URL that converts makes exactly one fetch, and when the fetch fails (a
\* response that is not 2xx, or no response) it raises ValueError and returns
\* no descriptor.
C22_FailedFetchRaisesValueError ==
    ( /\ call.op = "pull_descriptor_from_github" /\ call.status # "called"
      /\ convert_url(call.git_repo).status = "returned" )
    => /\ Len(call.fetched) = 1
       /\ call.response # "ok"
            => /\ call.status = "raised" /\ call.exc = "ValueError"
               /\ call.result = <<>>

\* the unzip command parsed back: its commands, each one split into words
UnzipWords(n) == SplitWords(SplitOn(call.result, CmdEnd)[n])

\* the path of a directory of the data skeleton of the call
CallDir(sub) == DataDir(call.slurm_data_path, call.zipfile, sub)

\* how often a list of words names a directory, as an argument or as the
\* target of -o
References(words, dir) ==
    Cardinality({ i \in 1..Len(words) :
                    words[i] = dir \/ words[i] = <<"-o">> \o dir })

UnzipDone ==
    /\ call.op = "get_unzip_command" /\ call.status = "returned"
    /\ \A i \in 1..Len(call.zipfile) : call.zipfile[i] \notin Whitespace

RECURSIVE Concat(_)
Concat(chunks) ==
    IF chunks = <<>> THEN <<>> ELSE Head(chunks) \o Concat(Tail(chunks))

\* C25: chunk(lst, n) with n >= 1 yields chunks whose concatenation is lst
\* in order; every chunk but the last has n elements, the last has between
\* 1 and n, so none is empty, and there are ceil(len(lst) / n) of them.
C25_ChunksPartitionTheList ==
    (call.op = "chunk" /\ call.status = "returned" /\ call.n >= 1)
    => /\ Concat(call.result) = call.lst
       /\ \A i \in 1..Len(call.result) :
            /\ Len(call.result[i]) >= 1
            /\ Len(call.result[i]) <= call.n
            /\ i < Len(call.result) => Len(call.result[i]) = call.n
       /\ Len(call.result) = (Len(call.lst) + call.n - 1) \div call.n

\* a list cut into more than one chunk, the last one shorter
C25_Witness ==
    /\ call.op = "chunk" /\ call.status = "returned" /\ call.n >= 2
    /\ Len(call.result) >= 2
    /\ Len(call.result[Len(call.result)]) < call.n

\* how often an id was imported, and how often the log reports it as taken
\* out of the polling list
TimesImported(id) == Cardinality({ i \in 1..Len(imports) : imports[i] = id })
TimesStopped(id) ==
    Cardinality({ i \in 1..Len(log_string) :
                    /\ log_string[i].kind \in {"timeout", "imported",
                                               "cancelled_failed", "unknown"}
                    /\ log_string[i].id = id })

\* C26 (as claimed): over a whole run, polls that raised included, no job id
\* is imported more than once and none gets more than one log entry of
\* terminal handling.
C26_TerminalHandlingAtMostOnce ==
    \A id \in AllJobIds : TimesImported(id) <= 1 /\ TimesStopped(id) <= 1

\* the polling phase: from the assignment of slurm_job_id_list on
Polling == pc \in {"poll", "poll_check", "handle"}

\* the non-negative job ids this run's submissions returned
SubmittedIds ==
    { slurm_job_ids[i].id : i \in { j \in 1..Len(slurm_job_ids) :
                                      slurm_job_ids[j].id >= 0 } }

\* C27: during polling the polling list holds only non-negative job ids that
\* this run's submissions returned; a step of the polling phase never adds
\* an id to it, and when a step changes it, it takes out exactly one id, the
\* one being handled, which was in the list.
C27_PollingSetOnlyShrinks ==
    /\ [](Polling => Range(slurm_job_id_list) \subseteq SubmittedIds)
    /\ [][ Polling =>
             \/ slurm_job_id_list' = slurm_job_id_list
             \/ /\ Handling
                /\ Head(todo).id \in Range(slurm_job_id_list)
                /\ Range(slurm_job_id_list')
                     = Range(slurm_job_id_list) \ {Head(todo).id}
                /\ Len(slurm_job_id_list') = Len(slurm_job_id_list) - 1 ]_vars

\* a run that polls after one submission gave an id and another gave -1,
\* and has taken the id out of the list
C27_Witness ==
    /\ Polling
    /\ \E i \in 1..Len(slurm_job_ids) : slurm_job_ids[i].id = NoJobId
    /\ SubmittedIds # {}
    /\ slurm_job_id_list = <<>>
    /\ StoppedTracking # {}

\* nothing submitted, polled or imported so far
NothingSubmitted ==
    /\ slurm_job_ids = <<>> /\ slurm_job_id_list = <<>>
    /\ rw = IdleWorkflow /\ cjs = IdleCall
    /\ imports = <<>> /\ LoggedKinds({"submitted"}) = {}

\* C28: the submissions are entered only by the step in which the script
\* update returned ok, and the script update only by the step in which the
\* unpack returned ok; until then nothing is submitted, polled or imported.
\* A step of the unpack or of the update that does not go on ends the run
\* with the output Message set, and the ended run takes no further step.
C28_SubmitOnlyAfterUnpackAndUpdate ==
    /\ [](pc \in {"unpack", "update"} => NothingSubmitted /\ ~output.set)
    /\ [][ /\ pc' = "update" => pc = "unpack"
           /\ (pc' = "submit" /\ pc \notin {"submit", "submit_check"})
                => pc = "update"
           /\ (pc = "unpack" /\ pc' # "update")
                => pc' = "done" /\ output'.set /\ NothingSubmitted'
           /\ (pc = "update" /\ pc' # "submit")
                => pc' = "done" /\ output'.set /\ NothingSubmitted'
           /\ pc # "done" ]_vars

\* a run with workflows ticked that ended with the Message set and without
\* any submission
C28_Witness ==
    /\ pc = "done" /\ output.set /\ selected # {}
    /\ NothingSubmitted

\* C29 (as claimed): in the environment map of get_workflow_command the four
\* derived variables hold the values derived from the configuration and the
\* arguments, whatever workflow parameters are passed, and every parameter
\* passed is in the map, formatted, under its uppercased name.
C29_DerivedVariablesKept ==
    (call.op = "get_workflow_command" /\ call.status = "returned")
    => /\ \A k \in {"DATA_PATH", "IMAGE_PATH", "IMAGE_VERSION",
                    "SINGULARITY_IMAGE"} :
            /\ k \in DOMAIN call.env
            /\ call.env[k] = sbatch_env(call.workflow, call.workflow_version,
                                        call.input_data)[k]
       /\ \A i \in 1..Len(call.kwargs) :
            /\ Upper(call.kwargs[i].key) \in DOMAIN call.env
            /\ call.env[Upper(call.kwargs[i].key)] = Str(call.kwargs[i].value)

\* C30 (as claimed): str_to_class returns an instance of the class when the
\* module and the class exist (and the instance is not falsy), and returns
\* None without raising when the module cannot be imported or the class is
\* not in it.
C30_MissingClassGivesNone ==
    (call.op = "str_to_class" /\ call.status # "called")
    => IF /\ call.module_name \in Modules
          /\ call.class_name \in Classes(call.module_name)
       THEN call.truthy
              => /\ call.status = "returned"
                 /\ call.result
                      = <<"instance", call.module_name, call.class_name>>
       ELSE call.status = "returned" /\ call.result = <<"None">>
====
